---- MODULE Spec2Model ----
(***************************************************************************)
(* Model of io_ot.py: a Telegram question-answering bot.  Two handlers are *)
(* registered on the client (start, message_handler); every inbound        *)
(* message is dispatched as its own unit on one cooperative event loop.    *)
(* process_query searches three Pinecone namespaces, formats the hits and  *)
(* hands query and context to the Gemini model.                            *)
(*                                                                         *)
(* Text is modelled as a sequence of one-character strings, a formatted    *)
(* context as a sequence of segments (a segment is the rendering of one    *)
(* hit, or a separator).                                                   *)
(***************************************************************************)
EXTENDS Integers, Sequences, FiniteSets, TLC

\* ------------------------------------------------------------------ bounds
MaxMsgs == 2        \* inbound messages (units of work) of one run
MaxHits == 2        \* hits the index returns for one search in this model

Units == 1..MaxMsgs

\* --------------------------------------------------------------- constants
TOP_K == 5
namespaces == <<"key_words", "general_text", "tables">>
start_pattern == <<"/", "s", "t", "a", "r", "t">>
SLASH == <<"/">>
welcome_message == "Hello! I am a Q&A bot for the Grade 11 Biology curriculum.\n\nPlease ask me a question, and I will find the answer for you from the textbook."
APOLOGY == "I'm sorry, an unexpected error occurred while processing your request. Please try again later."
NA == "N/A"
NL == <<"\n">>

\* ------------------------------------------------------------------ inputs
\* event.text of the inbound messages
Texts ==
  { <<"/", "s", "t", "a", "r", "t">>,
    <<"/", "s", "t", "a", "r", "t", "x">>,
    <<"/", "h", "e", "l", "p">>,
    <<"h", "i">>,
    <<>> }
\* the texts used where several messages are in flight: the empty text is
\* handled like any other text without /, and is left to the one-message runs
ShortTexts == Texts \ {<<>>}
\* response.text of the model
Answers == {"answer A", "answer B"}
\* hits of the index: dictionaries, any key of which may be absent.  A score
\* is <<"int", value>> or <<"float", sign, thousandths>>: the double nearest
\* to sign * thousandths / 1000, sign being 1 or -1 (the sign bit).
Hit1 ==
  [_id |-> "rec1", _score |-> <<"float", 1, 876>>,
   fields |-> [page_number |-> "12", topic |-> "Cells", chunk_text |-> "text1"]]
Hit2 == [_id |-> "rec2", fields |-> [topic |-> "Enzymes"]]
Hits == {Hit1, Hit2}

RECURSIVE SeqsUpTo(_, _)
SeqsUpTo(S, n) ==
  IF n = 0 THEN {<<>>}
  ELSE LET shorter == SeqsUpTo(S, n - 1)
       IN  shorter \cup {Append(s, x) : s \in shorter, x \in S}

Min(a, b) == IF a < b THEN a ELSE b
\* what search may return: at most top_k hits, in the index's order
HitLists == SeqsUpTo(Hits, Min(MaxHits, TOP_K))
\* the results used where several messages are in flight: no hit, or one
ShortLists == {<<>>, <<Hit1>>}
\* the hits used to exercise the formatting: Hit1 with every subset of its
\* keys and of the keys of its fields absent, and with every score of
\* ScoreValues
Restrict(d, keys) == [k \in keys |-> d[k]]
ScoreValues ==
  { <<"float", 1, 0>>, <<"float", 1, 5>>, <<"float", 1, 15>>, <<"float", 1, 50>>,
    <<"float", 1, 125>>, <<"float", 1, 500>>, <<"float", 1, 874>>,
    <<"float", 1, 876>>, <<"float", 1, 1000>>,
    <<"float", -1, 4>>, <<"float", -1, 500>>,
    <<"int", 0>>, <<"int", 1>>, <<"int", -1>> }
FieldHits ==
  { [k \in K |-> IF k = "fields" THEN Restrict(Hit1.fields, F) ELSE Hit1[k]] :
      K \in SUBSET {"_id", "_score", "fields"},
      F \in SUBSET {"page_number", "topic", "chunk_text"} }
ScoreHits == {[Hit1 EXCEPT !._score = s] : s \in ScoreValues}
FormatHits == FieldHits \cup ScoreHits
FormatLists == {<<>>} \cup {<<h>> : h \in FormatHits}
\* a search returns a result or raises
SearchOutcomes(lists) ==
  {[ok |-> FALSE, hits |-> <<>>]} \cup {[ok |-> TRUE, hits |-> h] : h \in lists}
GenerateOutcomes ==
  {[ok |-> FALSE, text |-> ""]} \cup {[ok |-> TRUE, text |-> a] : a \in Answers}

\* ------------------------------------------------------------------- state
VARIABLES
  pc,             \* position of each unit in its handlers
  text,           \* event.text
  loop,           \* the unit running without yielding to the event loop, or 0
  action,         \* the unit is inside `async with client.action(chat_id, 'typing')`,
                  \* chat_id being the chat of the unit's message
  raising,        \* an exception is propagating out of the `async with` block
  all_contexts,   \* process_query: formatted results of the namespaces searched
  retrieved,      \* process_query: the hits those searches returned, per namespace
  system_prompt,  \* generate_content: the prompt of the call in progress
  response_text,  \* message_handler: the value process_query returned
  searches,       \* history: dense_index.search calls issued for the unit
  generations,    \* history: model.generate_content calls and what they returned
  sent,           \* history: texts handed to event.respond
  replies,        \* history: texts event.respond delivered
  escaped         \* history: handlers an exception propagated out of

vars == <<pc, text, loop, action, raising, all_contexts, retrieved, system_prompt,
          response_text, searches, generations, sent, replies, escaped>>

NoPrompt == [query |-> <<>>, contents |-> <<>>, built |-> FALSE]

\* -------------------------------------------------------- pure functions
\* str.startswith
StartsWith(s, prefix) ==
  /\ Len(s) >= Len(prefix)
  /\ SubSeq(s, 1, Len(prefix)) = prefix

\* events.NewMessage(pattern=...): re.compile(pattern).match, which matches
\* at the beginning of the text and accepts any continuation
Matches(pattern, s) ==
  /\ Len(s) >= Len(pattern)
  /\ \A i \in 1..Len(pattern) : s[i] = pattern[i]

\* dict.get(key, default)
Get(d, key, default) == IF key \in DOMAIN d THEN d[key] ELSE default

\* sep.join(parts) for parts that are sequences
RECURSIVE Join(_, _)
Join(sep, parts) ==
  IF parts = <<>> THEN <<>>
  ELSE IF Len(parts) = 1 THEN parts[1]
  ELSE parts[1] \o sep \o Join(sep, Tail(parts))

\* the number of bits of n
RECURSIVE BitLen(_)
BitLen(n) == IF n = 0 THEN 0 ELSE 1 + BitLen(n \div 2)

\* the binary expansion of a fraction of r thousandths, cut after the 53
\* significant bits of a double and rounded to nearest, ties to even: the
\* sign of what the rounding adds (0: the fraction is exact in binary).
\* bits: the significant bits still to produce; last: the last bit produced
RECURSIVE BinaryError(_, _, _)
BinaryError(r, bits, last) ==
  IF r = 0 THEN 0
  ELSE IF bits = 0
       THEN IF 2 * r > 1000 \/ (2 * r = 1000 /\ last = 1) THEN 1 ELSE -1
  ELSE LET b == IF 2 * r >= 1000 THEN 1 ELSE 0
       IN  BinaryError(2 * r - 1000 * b, IF bits = 53 /\ b = 0 THEN 53 ELSE bits - 1, b)

\* whether the double nearest to t thousandths is above (1), below (-1) or
\* equal to (0) t / 1000
FloatError(t) == BinaryError(t % 1000, 53 - BitLen(t \div 1000), (t \div 1000) % 2)

\* round(score, 2): an int stays an int; a float goes to the hundredth
\* nearest to its binary value, half to even where the tie is exact in
\* binary, and keeps its sign (round(-0.004, 2) is -0.0).  The result is
\* <<"float", sign, hundredths>>.
Round2(score) ==
  IF score[1] = "int" THEN score
  ELSE LET q == score[3] \div 10
           r == score[3] % 10
           e == FloatError(score[3])
           up == r > 5 \/ (r = 5 /\ (e = 1 \/ (e = 0 /\ q % 2 = 1)))
       IN  <<"float", score[2], IF up THEN q + 1 ELSE q>>

\* variant: the score formatted with two fixed decimals
ScoreTextFixed2(rounded) ==
  LET neg == IF rounded[1] = "int" THEN rounded[2] < 0 ELSE rounded[2] = -1
      h == IF rounded[1] = "float" THEN rounded[3]
           ELSE IF rounded[2] < 0 THEN -100 * rounded[2] ELSE 100 * rounded[2]
  IN  (IF neg THEN "-" ELSE "") \o
      ToString(h \div 100) \o "." \o ToString((h % 100) \div 10) \o ToString(h % 10)

\* str() of the rounded score: repr of a float has its sign, drops trailing
\* zeros but keeps one decimal; an int has no decimal point
ScoreText(rounded) ==
  IF rounded[1] = "int" THEN ToString(rounded[2])
  ELSE LET whole == rounded[3] \div 100
           frac  == rounded[3] % 100
       IN  (IF rounded[2] = -1 THEN "-" ELSE "") \o
           ToString(whole) \o "." \o
           (IF frac % 10 = 0 THEN ToString(frac \div 10)
            ELSE IF frac < 10 THEN "0" \o ToString(frac)
            ELSE ToString(frac))

\* the f-string of one hit
FormatHit(hit) ==
  LET fields == Get(hit, "fields", <<>>)
  IN  << "ID: ", Get(hit, "_id", NA),
         " | SCORE: ", ScoreText(Round2(Get(hit, "_score", <<"int", 0>>))),
         " | PAGE_NUMBER: ", Get(fields, "page_number", NA), "\n",
         "TEXT_HEADER: ", Get(fields, "topic", NA), "\n",
         "TEXT_CONTENT: ", Get(fields, "chunk_text", NA), "\n\n" >>

\* formatted_results of one namespace
FormattedResults(hits) ==
  Join(<<NL>>, [i \in 1..Len(hits) |-> <<FormatHit(hits[i])>>])

\* variant: the namespaces' results joined in the reverse order
FullContextReversed(contexts) ==
  Join(<<NL>>, [i \in 1..Len(contexts) |-> contexts[Len(contexts) + 1 - i]])

\* full_context
FullContext(contexts) == Join(<<NL>>, contexts)

\* the prompt generate_content builds: a fixed template around query and contents
Prompt(query, contents) == [query |-> query, contents |-> contents, built |-> TRUE]

\* ------------------------------------------------------------------ steps
Init ==
  /\ pc = [m \in Units |-> "idle"]
  /\ text = [m \in Units |-> <<>>]
  /\ loop = 0
  /\ action = [m \in Units |-> FALSE]
  /\ raising = [m \in Units |-> FALSE]
  /\ all_contexts = [m \in Units |-> <<>>]
  /\ retrieved = [m \in Units |-> <<>>]
  /\ system_prompt = [m \in Units |-> NoPrompt]
  /\ response_text = [m \in Units |-> ""]
  /\ searches = [m \in Units |-> <<>>]
  /\ generations = [m \in Units |-> <<>>]
  /\ sent = [m \in Units |-> <<>>]
  /\ replies = [m \in Units |-> <<>>]
  /\ escaped = [m \in Units |-> {}]

\* variant: message_handler without its check of the first character
MessageHandlerEntryNoFilter(t) == "enter"

\* message_handler up to its first await: a text that starts with '/' returns
\* at once, any other text goes on to enter the typing action
MessageHandlerEntry(t) == IF StartsWith(t, SLASH) THEN "done" ELSE "enter"

\* variant: an except clause that logs the exception and sends nothing
ExceptTargetSilent == "exit"

\* Where an exception raised inside the try block of message_handler goes:
\* the except clause, which sends the apology
ExceptTarget == "apology"

\* An inbound message arrives: the client runs the registered handlers in
\* registration order, start (when its pattern matches) and message_handler.
Receive(m, t) ==
  /\ pc[m] = "idle"
  /\ loop = 0
  /\ IF m = 1 THEN TRUE ELSE pc[m - 1] # "idle"
  /\ text' = [text EXCEPT ![m] = t]
  /\ pc' = [pc EXCEPT ![m] =
              IF Matches(start_pattern, t) THEN "start" ELSE MessageHandlerEntry(t)]
  /\ UNCHANGED <<loop, action, raising, all_contexts, retrieved, system_prompt, response_text,
                 searches, generations, sent, replies, escaped>>

\* start: `await event.respond(welcome_message)` completes or raises; then
\* message_handler runs for the same message.
StartRespond(m, ok) ==
  /\ pc[m] = "start"
  /\ loop = 0
  /\ sent' = [sent EXCEPT ![m] = Append(@, welcome_message)]
  /\ replies' = [replies EXCEPT ![m] = IF ok THEN Append(@, welcome_message) ELSE @]
  /\ escaped' = [escaped EXCEPT ![m] = IF ok THEN @ ELSE @ \cup {"start"}]
  /\ pc' = [pc EXCEPT ![m] = MessageHandlerEntry(text[m])]
  /\ UNCHANGED <<text, loop, action, raising, all_contexts, retrieved, system_prompt,
                 response_text, searches, generations>>

\* variant: the block is entered without the typing action being started
EnterActionNoIndicator(m, ok) ==
  /\ pc[m] = "enter"
  /\ loop = 0
  /\ IF ok
     THEN /\ pc' = [pc EXCEPT ![m] = "search"]
          /\ loop' = m
          /\ UNCHANGED escaped
     ELSE /\ escaped' = [escaped EXCEPT ![m] = @ \cup {"message_handler"}]
          /\ pc' = [pc EXCEPT ![m] = "done"]
          /\ UNCHANGED loop
  /\ UNCHANGED <<text, action, raising, all_contexts, retrieved, system_prompt,
                 response_text, searches, generations, sent, replies>>

\* message_handler: `async with client.action(chat_id, 'typing')` is entered.
\* It stands outside the try block: an exception here leaves the handler.
\* Once entered, process_query runs without yielding to the event loop.
EnterAction(m, ok) ==
  /\ pc[m] = "enter"
  /\ loop = 0
  /\ IF ok
     THEN /\ action' = [action EXCEPT ![m] = TRUE]
          /\ pc' = [pc EXCEPT ![m] = "search"]
          /\ loop' = m
          /\ UNCHANGED escaped
     ELSE /\ escaped' = [escaped EXCEPT ![m] = @ \cup {"message_handler"}]
          /\ pc' = [pc EXCEPT ![m] = "done"]
          /\ UNCHANGED <<action, loop>>
  /\ UNCHANGED <<text, raising, all_contexts, retrieved, system_prompt, response_text,
                 searches, generations, sent, replies>>

\* variant: the namespaces searched from the last to the first
NextNamespaceReversed(contexts) == namespaces[Len(namespaces) - Len(contexts)]

\* process_query: the namespace of the next iteration of the loop
NextNamespace(contexts) == namespaces[Len(contexts) + 1]

\* process_query: the arguments of dense_index.search
SearchCall(ns, query) == [namespace |-> ns, top_k |-> TOP_K, text |-> query]

\* variant: a search that raised is taken for a search without hits
AfterSearchDegrade(ok, contexts) ==
  IF Len(contexts) < Len(namespaces) THEN "search" ELSE "generate"

\* variant: the model is called after the first search that returned
AfterSearchEarly(ok, contexts) == IF ~ok THEN ExceptTarget ELSE "generate"

\* variant: a query without any hit is answered by the apology
AfterSearchSkipEmpty(ok, contexts) ==
  IF ~ok THEN ExceptTarget
  ELSE IF Len(contexts) < Len(namespaces) THEN "search"
  ELSE IF \A i \in 1..Len(contexts) : contexts[i] = <<>> THEN ExceptTarget
  ELSE "generate"

\* process_query: where control is after a search and the formatting of its
\* hits: in the except clause of message_handler when the search raised, in
\* the next iteration, or past the loop in generate_content
AfterSearch(ok, contexts) ==
  IF ~ok THEN ExceptTarget
  ELSE IF Len(contexts) < Len(namespaces) THEN "search"
  ELSE "generate"

\* process_query: one iteration of the loop over the namespaces: the search
\* call, then the formatting of its hits; after the last namespace the
\* context is joined and generate_content builds the prompt.
Search(m, outcome) ==
  /\ pc[m] = "search"
  /\ loop = m
  /\ LET ns == NextNamespace(all_contexts[m])
         contexts == Append(all_contexts[m], FormattedResults(outcome.hits))
         next == AfterSearch(outcome.ok, contexts)
     IN  /\ searches' = [searches EXCEPT ![m] =
                Append(@, [call |-> SearchCall(ns, text[m]), ok |-> outcome.ok])]
         /\ pc' = [pc EXCEPT ![m] = next]
         /\ loop' = IF next \in {"search", "generate"} THEN m ELSE 0
         /\ all_contexts' = [all_contexts EXCEPT ![m] =
                IF next \in {"search", "generate"} THEN contexts ELSE <<>>]
         /\ retrieved' = [retrieved EXCEPT ![m] =
                IF next \in {"search", "generate"} THEN Append(@, outcome.hits) ELSE <<>>]
         /\ system_prompt' = [system_prompt EXCEPT ![m] =
                IF next = "generate" THEN Prompt(text[m], FullContext(contexts)) ELSE @]
  /\ UNCHANGED <<text, action, raising, response_text, generations, sent,
                 replies, escaped>>

\* variant: a generation call that raised is made again
GenerateRetry(m, outcome) ==
  /\ pc[m] = "generate"
  /\ loop = m
  /\ generations' = [generations EXCEPT ![m] = Append(@, outcome)]
  /\ all_contexts' = [all_contexts EXCEPT ![m] = IF outcome.ok THEN <<>> ELSE @]
  /\ retrieved' = [retrieved EXCEPT ![m] = IF outcome.ok THEN <<>> ELSE @]
  /\ system_prompt' = [system_prompt EXCEPT ![m] = IF outcome.ok THEN NoPrompt ELSE @]
  /\ response_text' = [response_text EXCEPT ![m] = IF outcome.ok THEN outcome.text ELSE @]
  /\ pc' = [pc EXCEPT ![m] = IF outcome.ok THEN "respond" ELSE "generate"]
  /\ loop' = IF outcome.ok THEN 0 ELSE m
  /\ UNCHANGED <<text, action, raising, searches, sent, replies, escaped>>

\* generate_content: model.generate_content(system_prompt) returns a text or
\* raises; process_query returns the text and message_handler awaits the reply.
Generate(m, outcome) ==
  /\ pc[m] = "generate"
  /\ loop = m
  /\ generations' = [generations EXCEPT ![m] = Append(@, outcome)]
  /\ all_contexts' = [all_contexts EXCEPT ![m] = <<>>]
  /\ retrieved' = [retrieved EXCEPT ![m] = <<>>]
  /\ system_prompt' = [system_prompt EXCEPT ![m] = NoPrompt]
  /\ response_text' = [response_text EXCEPT ![m] = IF outcome.ok THEN outcome.text ELSE @]
  /\ pc' = [pc EXCEPT ![m] = IF outcome.ok THEN "respond" ELSE ExceptTarget]
  /\ loop' = 0
  /\ UNCHANGED <<text, action, raising, searches, sent, replies, escaped>>

\* variant: the apology is sent after the answer as well (a finally clause)
RespondThenApology(m, ok) ==
  /\ pc[m] = "respond"
  /\ loop = 0
  /\ sent' = [sent EXCEPT ![m] = Append(@, response_text[m])]
  /\ replies' = [replies EXCEPT ![m] = IF ok THEN Append(@, response_text[m]) ELSE @]
  /\ pc' = [pc EXCEPT ![m] = ExceptTarget]
  /\ UNCHANGED <<text, loop, action, raising, all_contexts, retrieved, system_prompt,
                 response_text, searches, generations, escaped>>

\* message_handler: `await event.respond(response_text)` completes or raises
Respond(m, ok) ==
  /\ pc[m] = "respond"
  /\ loop = 0
  /\ sent' = [sent EXCEPT ![m] = Append(@, response_text[m])]
  /\ replies' = [replies EXCEPT ![m] = IF ok THEN Append(@, response_text[m]) ELSE @]
  /\ pc' = [pc EXCEPT ![m] = IF ok THEN "exit" ELSE ExceptTarget]
  /\ UNCHANGED <<text, loop, action, raising, all_contexts, retrieved, system_prompt,
                 response_text, searches, generations, escaped>>

\* message_handler, except clause: `await event.respond(<apology>)` completes
\* or raises; nothing catches an exception raised here
Apology(m, ok) ==
  /\ pc[m] = "apology"
  /\ loop = 0
  /\ sent' = [sent EXCEPT ![m] = Append(@, APOLOGY)]
  /\ replies' = [replies EXCEPT ![m] = IF ok THEN Append(@, APOLOGY) ELSE @]
  /\ raising' = [raising EXCEPT ![m] = ~ok]
  /\ pc' = [pc EXCEPT ![m] = "exit"]
  /\ UNCHANGED <<text, loop, action, all_contexts, retrieved, system_prompt,
                 response_text, searches, generations, escaped>>

\* variant: the typing action is ended on the normal path only
ExitActionOnSuccessOnly(m, ok) ==
  /\ pc[m] = "exit"
  /\ loop = 0
  /\ action' = [action EXCEPT ![m] = IF raising[m] THEN @ ELSE FALSE]
  /\ escaped' = [escaped EXCEPT
                   ![m] = IF raising[m] \/ ~ok THEN @ \cup {"message_handler"} ELSE @]
  /\ raising' = [raising EXCEPT ![m] = FALSE]
  /\ response_text' = [response_text EXCEPT ![m] = ""]
  /\ pc' = [pc EXCEPT ![m] = "done"]
  /\ UNCHANGED <<text, loop, all_contexts, retrieved, system_prompt, searches,
                 generations, sent, replies>>

\* the `async with` block is left, normally or by an exception: the typing
\* action ends and an exception on its way goes on out of the handler; the
\* exit of client.action is an await that returns (ok) or raises, and what it
\* raises leaves the handler too
ExitAction(m, ok) ==
  /\ pc[m] = "exit"
  /\ loop = 0
  /\ action' = [action EXCEPT ![m] = FALSE]
  /\ escaped' = [escaped EXCEPT
                   ![m] = IF raising[m] \/ ~ok THEN @ \cup {"message_handler"} ELSE @]
  /\ raising' = [raising EXCEPT ![m] = FALSE]
  /\ response_text' = [response_text EXCEPT ![m] = ""]
  /\ pc' = [pc EXCEPT ![m] = "done"]
  /\ UNCHANGED <<text, loop, all_contexts, retrieved, system_prompt, searches,
                 generations, sent, replies>>

Next ==
  \/ \E m \in Units, t \in ShortTexts : Receive(m, t)
  \/ \E m \in Units, ok \in BOOLEAN : StartRespond(m, ok)
  \/ \E m \in Units, ok \in BOOLEAN : EnterAction(m, ok)
  \/ \E m \in Units, outcome \in SearchOutcomes(ShortLists) : Search(m, outcome)
  \/ \E m \in Units, outcome \in GenerateOutcomes : Generate(m, outcome)
  \/ \E m \in Units, ok \in BOOLEAN : Respond(m, ok)
  \/ \E m \in Units, ok \in BOOLEAN : Apology(m, ok)
  \/ \E m \in Units, ok \in BOOLEAN : ExitAction(m, ok)

\* the bot with up to MaxMsgs messages in flight
Spec == Init /\ [][Next]_vars

\* one message, with every result of up to MaxHits hits per namespace
NextQuery ==
  \/ \E t \in Texts : Receive(1, t)
  \/ \E ok \in BOOLEAN : StartRespond(1, ok)
  \/ \E ok \in BOOLEAN : EnterAction(1, ok)
  \/ \E outcome \in SearchOutcomes(HitLists) : Search(1, outcome)
  \/ \E outcome \in GenerateOutcomes : Generate(1, outcome)
  \/ \E ok \in BOOLEAN : Respond(1, ok)
  \/ \E ok \in BOOLEAN : Apology(1, ok)
  \/ \E ok \in BOOLEAN : ExitAction(1, ok)

SpecQuery == Init /\ [][NextQuery]_vars

\* one message, each namespace returning no hit or one hit of FormatHits
NextFormat ==
  \/ \E t \in Texts : Receive(1, t)
  \/ \E ok \in BOOLEAN : StartRespond(1, ok)
  \/ \E ok \in BOOLEAN : EnterAction(1, ok)
  \/ \E outcome \in SearchOutcomes(FormatLists) : Search(1, outcome)
  \/ \E outcome \in GenerateOutcomes : Generate(1, outcome)
  \/ \E ok \in BOOLEAN : Respond(1, ok)
  \/ \E ok \in BOOLEAN : Apology(1, ok)
  \/ \E ok \in BOOLEAN : ExitAction(1, ok)

SpecFormat == Init /\ [][NextFormat]_vars

TypeOK ==
  /\ pc \in [Units -> {"idle", "start", "enter", "search", "generate", "respond",
                       "apology", "exit", "done"}]
  /\ loop \in 0..MaxMsgs
  /\ action \in [Units -> BOOLEAN]
  /\ raising \in [Units -> BOOLEAN]
  /\ \A m \in Units : Len(all_contexts[m]) <= Len(namespaces)

\* ------------------------------------------------------- derived notions
Last(q) == q[Len(q)]

\* the message is handled as a query: message_handler did not return at its
\* check of the first character
IsQuery(m) == pc[m] # "idle" /\ ~StartsWith(text[m], SLASH)

\* process_query was called for the message
Invoked(m) == searches[m] # <<>> \/ pc[m] \in {"search", "generate"}

\* the handlers of the message have returned or raised
Terminated(m) == pc[m] = "done"

\* a search of the message raised
SearchFailed(m) == searches[m] # <<>> /\ ~Last(searches[m]).ok

\* the three searches and the generation call of the message returned
AllSucceeded(m) ==
  /\ Len(searches[m]) = Len(namespaces)
  /\ \A i \in 1..Len(searches[m]) : searches[m][i].ok
  /\ Len(generations[m]) = 1
  /\ generations[m][1].ok

\* the per-message state of the dispatcher: RECEIVED until a handler has
\* decided, PROCESSING inside the typing action, and at the end the reply
\* the last call of event.respond was for
State(m) ==
  IF pc[m] = "idle" THEN "NONE"
  ELSE IF pc[m] \in {"start", "enter"} THEN "RECEIVED"
  ELSE IF pc[m] \in {"search", "generate", "respond", "apology"} THEN "PROCESSING"
  ELSE IF sent[m] = <<>>
       THEN IF StartsWith(text[m], SLASH) THEN "IGNORED" ELSE "ABORTED"
  ELSE IF Last(sent[m]) = welcome_message THEN "WELCOME_SENT"
  ELSE IF Last(sent[m]) = APOLOGY THEN "FAILED"
  ELSE IF replies[m] # <<>> THEN "ANSWERED"
  ELSE "ABORTED"

\* the segments of a context that render a hit
Blocks(context) == SelectSeq(context, LAMBDA seg : seg # NL)

RECURSIVE Flatten(_)
Flatten(lists) == IF lists = <<>> THEN <<>> ELSE Head(lists) \o Flatten(Tail(lists))

\* ------------------------------------------------------------ properties

\* C1: every exception raised inside a message's handling unit is caught in
\* message_handler and none propagates out of it
C1_NoExceptionLeavesHandler ==
  \A m \in Units : ~raising[m] /\ "message_handler" \notin escaped[m]

\* C2: a message whose text is exactly /start gets the welcome reply and
\* nothing else: one call of event.respond, with the welcome text, and no
\* call of process_query, of search or of the model
C2_StartOnlyWelcome ==
  \A m \in Units :
    (pc[m] # "idle" /\ text[m] = <<"/", "s", "t", "a", "r", "t">>) =>
      /\ pc[m] \in {"start", "done"}
      /\ sent[m] = (IF pc[m] = "done" THEN <<welcome_message>> ELSE <<>>)
      /\ replies[m] \in {<<>>, sent[m]}
      /\ ~Invoked(m)
      /\ searches[m] = <<>>
      /\ generations[m] = <<>>

C2_Witness ==
  \E m \in Units :
    /\ text[m] = <<"/", "s", "t", "a", "r", "t">>
    /\ pc[m] = "done"
    /\ replies[m] = <<welcome_message>>

\* C3: a text that begins with / and is not exactly /start gets no reply and
\* no processing
C3_OtherCommandsIgnored ==
  \A m \in Units :
    (pc[m] # "idle" /\ StartsWith(text[m], SLASH)
       /\ text[m] # <<"/", "s", "t", "a", "r", "t">>) =>
      /\ sent[m] = <<>>
      /\ searches[m] = <<>>
      /\ generations[m] = <<>>

\* C4: a message whose generation call failed is sent the apology and only
\* the apology; a message whose searches and generation succeeded is sent
\* the text the model returned for it, whatever happened to the other
\* messages; and a unit holds the event loop only while it is inside
\* process_query, so that a failed unit never keeps another from running
C4_FailureIsolated ==
  \A m \in Units :
    /\ (pc[m] \in {"exit", "done"} /\ generations[m] # <<>> /\ ~generations[m][1].ok) =>
          /\ sent[m] = <<APOLOGY>>
          /\ replies[m] \in {<<>>, <<APOLOGY>>}
          /\ (replies[m] = <<>> => (raising[m] \/ "message_handler" \in escaped[m]))
    /\ (pc[m] \in {"exit", "done"} /\ AllSucceeded(m)) =>
          /\ sent[m][1] = generations[m][1].text
          /\ (Len(sent[m]) = 1 => replies[m] = <<generations[m][1].text>>)
    /\ (loop = m => pc[m] \in {"search", "generate"})

C4_Witness ==
  \E m \in Units, n \in Units :
    /\ m < n
    /\ Terminated(m) /\ generations[m] # <<>> /\ ~generations[m][1].ok
    /\ replies[m] = <<APOLOGY>>
    /\ Terminated(n) /\ AllSucceeded(n) /\ replies[n] = <<generations[n][1].text>>

\* C5: the typing action of a message is off whenever its unit is not
\* processing, in particular once the unit has ended, on every path
C5_IndicatorCleared ==
  \A m \in Units :
    /\ (pc[m] \in {"idle", "start", "enter", "done"} => ~action[m])
    /\ (pc[m] \in {"search", "generate", "respond", "apology", "exit"} => action[m])

C5_Witness ==
  \E m \in Units, n \in Units :
    /\ Terminated(m) /\ "message_handler" \in escaped[m] /\ sent[m] # <<>> /\ ~action[m]
    /\ Terminated(n) /\ State(n) = "ANSWERED" /\ ~action[n]

\* C6 as stated: a query that was processed has exactly one delivered reply
C6_ExactlyOneReply ==
  \A m \in Units :
    (Terminated(m) /\ IsQuery(m) /\ searches[m] # <<>>) =>
      /\ Len(replies[m]) = 1
      /\ replies[m][1] \in Answers \cup {APOLOGY}

\* C6 (amended): a query has at most one delivered reply, the model's answer
\* or the apology; it has none only when an exception left the handler (the
\* apology could not be delivered, or the typing action not be entered)
C6_AtMostOneReply ==
  \A m \in Units :
    IsQuery(m) =>
      /\ Len(replies[m]) <= 1
      /\ \A i \in 1..Len(replies[m]) : replies[m][i] \in Answers \cup {APOLOGY}
      /\ (replies[m] # <<>> /\ replies[m][1] # APOLOGY) =>
            (AllSucceeded(m) /\ replies[m][1] = generations[m][1].text)
      /\ Terminated(m) =>
            (replies[m] = <<>> => "message_handler" \in escaped[m])

C6_Witness ==
  \E m \in Units :
    /\ IsQuery(m) /\ Terminated(m)
    /\ Len(sent[m]) = 2
    /\ replies[m] = <<APOLOGY>>

\* C7: a message whose handlers have ended is in one of the four terminal
\* states, and a message that is being processed is a query
C7_StateMachine ==
  \A m \in Units :
    /\ Terminated(m) => State(m) \in {"WELCOME_SENT", "IGNORED", "ANSWERED", "FAILED"}
    /\ State(m) = "PROCESSING" => IsQuery(m)

\* C8 as stated: process_query issues exactly 3 search calls
C8_ExactlyThreeSearches ==
  \A m \in Units :
    (searches[m] # <<>> /\ pc[m] \in {"respond", "apology", "exit", "done"}) =>
      Len(searches[m]) = 3

\* C8 (amended): process_query issues at most 3 search calls, for key_words,
\* general_text and tables in this order, each with top_k = 5 and the text of
\* the message; a search that raises is the last one; the 3 of them are
\* issued whenever none raised
C8_SearchesInOrder ==
  \A m \in Units :
    /\ Len(searches[m]) <= 3
    /\ \A i \in 1..Len(searches[m]) :
         /\ searches[m][i].call.namespace = <<"key_words", "general_text", "tables">>[i]
         /\ searches[m][i].call.top_k = 5
         /\ searches[m][i].call.text = text[m]
         /\ (i < Len(searches[m]) => searches[m][i].ok)
    /\ (pc[m] = "search" => \A i \in 1..Len(searches[m]) : searches[m][i].ok)
    /\ (searches[m] # <<>> /\ pc[m] # "search" /\ ~SearchFailed(m)) => Len(searches[m]) = 3
    /\ (pc[m] = "generate" \/ generations[m] # <<>>) =>
         (Len(searches[m]) = 3 /\ ~SearchFailed(m))

C8_Witness ==
  \E m \in Units, n \in Units :
    /\ Terminated(m) /\ Len(searches[m]) = 3 /\ ~SearchFailed(m)
    /\ Terminated(n) /\ Len(searches[n]) = 2 /\ SearchFailed(n)

\* C9 as stated: when a search raises, no hit of the namespaces searched
\* before it has been formatted, the model is not called and the apology is
\* sent
C9_NothingFormatted ==
  /\ [](\A m \in Units : SearchFailed(m) => generations[m] = <<>>)
  /\ [][\A m \in Units :
          (pc[m] = "search" /\ pc'[m] = "apology") => Blocks(Flatten(all_contexts[m])) = <<>>]_vars

\* C9 (amended): when a search raises, the formatted results of the
\* namespaces searched before it are dropped: no context is joined, no
\* prompt built, the model is never called for the message, and the apology
\* is the only reply sent
C9_NoPartialContext ==
  \A m \in Units :
    SearchFailed(m) =>
      /\ pc[m] \in {"apology", "exit", "done"}
      /\ all_contexts[m] = <<>>
      /\ retrieved[m] = <<>>
      /\ ~system_prompt[m].built
      /\ generations[m] = <<>>
      /\ sent[m] = (IF pc[m] = "apology" THEN <<>> ELSE <<APOLOGY>>)

C9_Witness ==
  \E m \in Units :
    /\ Terminated(m)
    /\ Len(searches[m]) = 3
    /\ SearchFailed(m)
    /\ searches[m][3].call.namespace = "tables"
    /\ sent[m] = <<APOLOGY>>

\* C10: the context handed to the model holds one block per hit retrieved:
\* the hits of key_words, then of general_text, then of tables, each
\* namespace's in the order returned, a hit returned twice rendered twice
C10_ContextOrder ==
  \A m \in Units :
    pc[m] = "generate" =>
      LET blocks == Blocks(system_prompt[m].contents)
          hits == retrieved[m][1] \o retrieved[m][2] \o retrieved[m][3]
      IN  /\ Len(retrieved[m]) = 3
          /\ Len(blocks) = Len(hits)
          /\ \A k \in 1..Len(hits) : blocks[k] = FormatHit(hits[k])
          /\ system_prompt[m].query = text[m]

C10_Witness ==
  \E m \in Units :
    /\ pc[m] = "generate"
    /\ \A i \in 1..3 : Len(retrieved[m][i]) = 2
    /\ retrieved[m][1] = retrieved[m][3]
    /\ retrieved[m][1][1] # retrieved[m][1][2]
    /\ Len(Blocks(system_prompt[m].contents)) = 6

\* ------------------------------------------- properties of the formatting
\* the block that renders hit k of the namespace i searched for message m
BlockOf(m, i, k) == Blocks(all_contexts[m][i])[k]

\* every hit retrieved so far has its block: the formatting did not raise
AllFormatted(m) ==
  /\ Len(all_contexts[m]) = Len(retrieved[m])
  /\ \A i \in 1..Len(retrieved[m]) :
       /\ Len(Blocks(all_contexts[m][i])) = Len(retrieved[m][i])
       /\ \A k \in 1..Len(retrieved[m][i]) : Len(BlockOf(m, i, k)) = 13

\* the id, page number, topic and chunk text of a hit are rendered as they
\* are, and as N/A when absent
FieldsRendered(hit, block) ==
  LET fields == IF "fields" \in DOMAIN hit THEN hit["fields"] ELSE <<>>
  IN  /\ block[2] = (IF "_id" \in DOMAIN hit THEN hit["_id"] ELSE "N/A")
      /\ block[6] = (IF "page_number" \in DOMAIN fields THEN fields["page_number"] ELSE "N/A")
      /\ block[9] = (IF "topic" \in DOMAIN fields THEN fields["topic"] ELSE "N/A")
      /\ block[12] = (IF "chunk_text" \in DOMAIN fields THEN fields["chunk_text"] ELSE "N/A")

\* C11: every absent field of a hit, the score included, is rendered as
\* N/A, and every hit is formatted, whatever it lacks
C11_MissingAsNA ==
  \A m \in Units :
    /\ AllFormatted(m)
    /\ \A i \in 1..Len(retrieved[m]) : \A k \in 1..Len(retrieved[m][i]) :
         /\ FieldsRendered(retrieved[m][i][k], BlockOf(m, i, k))
         /\ "_score" \notin DOMAIN retrieved[m][i][k] => BlockOf(m, i, k)[4] = "N/A"

\* the text of n hundredths with two decimals
TwoDecimals(n) ==
  ToString(n \div 100) \o "." \o ToString((n % 100) \div 10) \o ToString(n % 10)

\* the score of a hit (an absent score counts as the int 0)
ScoreOf(hit) == IF "_score" \in DOMAIN hit THEN hit["_score"] ELSE <<"int", 0>>

\* "-" for a negative score
SignOf(score) ==
  IF (IF score[1] = "int" THEN score[2] < 0 ELSE score[2] = -1) THEN "-" ELSE ""

\* the hundredths the magnitude of a score is nearest to
Nearest(hit) ==
  LET score == ScoreOf(hit)
  IN  IF score[1] = "int"
      THEN {IF score[2] < 0 THEN -100 * score[2] ELSE 100 * score[2]}
      ELSE {n \in 0..200 : 10 * n - score[3] \in -5..5}

\* C17 as stated: every score is rendered with exactly 2 decimals
C17_TwoDecimals ==
  \A m \in Units : \A i \in 1..Len(retrieved[m]) : \A k \in 1..Len(retrieved[m][i]) :
    \E n \in Nearest(retrieved[m][i][k]) :
      BlockOf(m, i, k)[4] = SignOf(ScoreOf(retrieved[m][i][k])) \o TwoDecimals(n)

\* C17 (amended): every score is rendered with its sign, rounded to a
\* nearest hundredth, with at most 2 decimals: a float without its trailing
\* zero (0.5, 1.0, -0.0), an integer or an absent score without decimals
\* (1, -1, 0)
C17_AtMostTwoDecimals ==
  \A m \in Units : \A i \in 1..Len(retrieved[m]) : \A k \in 1..Len(retrieved[m][i]) :
    LET hit == retrieved[m][i][k]
        shown == BlockOf(m, i, k)[4]
        sign == SignOf(ScoreOf(hit))
    IN  \E n \in Nearest(hit) :
          IF ScoreOf(hit)[1] = "int" THEN shown = sign \o ToString(n \div 100)
          ELSE IF n % 10 = 0 THEN shown \o "0" = sign \o TwoDecimals(n)
          ELSE shown = sign \o TwoDecimals(n)

C17_Witness ==
  \E m \in Units :
    /\ pc[m] = "generate"
    /\ \A i \in 1..3 : Len(retrieved[m][i]) = 1
    /\ retrieved[m][1][1] = [Hit1 EXCEPT !._score = <<"float", -1, 500>>]
    /\ retrieved[m][2][1] = [Hit1 EXCEPT !._score = <<"float", 1, 15>>]
    /\ "_score" \notin DOMAIN retrieved[m][3][1]
    /\ BlockOf(m, 1, 1)[4] = "-0.5"
    /\ BlockOf(m, 2, 1)[4] = "0.01"
    /\ BlockOf(m, 3, 1)[4] = "0"

\* ------------------------------------ properties of the message handling
\* the three searches of the message returned
SearchesReturned(m) ==
  /\ Len(searches[m]) = 3
  /\ \A i \in 1..3 : searches[m][i].ok

\* C12: the model is called only once the three searches have returned, at
\* most once, and when it returns, the text handed to event.respond is the
\* text it returned, and so is the reply delivered
C12_AnswerVerbatim ==
  \A m \in Units :
    /\ Len(generations[m]) <= 1
    /\ (pc[m] = "generate" \/ generations[m] # <<>>) => SearchesReturned(m)
    /\ (pc[m] = "generate") => generations[m] = <<>>
    /\ (SearchesReturned(m) /\ pc[m] # "generate") => Len(generations[m]) = 1
    /\ (generations[m] # <<>> /\ generations[m][1].ok) =>
         /\ pc[m] = "respond" => (response_text[m] = generations[m][1].text /\ sent[m] = <<>>)
         /\ pc[m] # "respond" => sent[m][1] = generations[m][1].text
         /\ \A i \in 1..Len(replies[m]) :
              replies[m][i] = (IF Len(sent[m]) = 1 THEN generations[m][1].text ELSE APOLOGY)
         /\ (pc[m] \in {"exit", "done"} /\ Len(sent[m]) = 1) =>
              replies[m] = <<generations[m][1].text>>

C12_Witness ==
  \E m \in Units, n \in Units :
    /\ Terminated(m) /\ AllSucceeded(m) /\ replies[m] = <<"answer A">>
    /\ Terminated(n) /\ AllSucceeded(n) /\ replies[n] = <<"answer B">>

\* a step of the handlers of message n from one of its awaits
UnitStep(n) ==
  \/ \E ok \in BOOLEAN : StartRespond(n, ok)
  \/ \E ok \in BOOLEAN : EnterAction(n, ok)
  \/ \E ok \in BOOLEAN : Respond(n, ok)
  \/ \E ok \in BOOLEAN : Apology(n, ok)
  \/ \E ok \in BOOLEAN : ExitAction(n, ok)

\* C13: while a unit is inside a search or the generation call, a unit that
\* waits at one of its awaits can go on
C13_CallsYield ==
  \A m \in Units, n \in Units :
    (m # n /\ pc[m] \in {"search", "generate"}
       /\ pc[n] \in {"start", "enter", "respond", "apology", "exit"}) =>
      ENABLED UnitStep(n)

\* C14: process_query is called with a non-empty text only
C14_QueryNonEmpty ==
  \A m \in Units :
    /\ Invoked(m) => text[m] # <<>>
    /\ \A i \in 1..Len(searches[m]) : searches[m][i].call.text # <<>>

\* C15: for one message no namespace is searched twice and the model is
\* called at most once, whatever failed; no reply is sent twice either
C15_NoRetry ==
  \A m \in Units :
    /\ \A i \in 1..Len(searches[m]), j \in 1..Len(searches[m]) :
         i # j => searches[m][i].call.namespace # searches[m][j].call.namespace
    /\ Len(generations[m]) <= 1
    /\ SearchFailed(m) => generations[m] = <<>>
    /\ \A i \in 1..Len(sent[m]), j \in 1..Len(sent[m]) : i # j => sent[m][i] # sent[m][j]

C15_Witness ==
  \E m \in Units, n \in Units :
    /\ Terminated(m) /\ generations[m] # <<>> /\ ~generations[m][1].ok
    /\ Len(generations[m]) = 1 /\ Len(searches[m]) = 3
    /\ Terminated(n) /\ SearchFailed(n) /\ Len(searches[n]) = 1
    /\ "message_handler" \in escaped[n]

\* the three namespaces returned no hit for the message, and the model is
\* about to be called
NoHits(m) ==
  /\ pc[m] = "generate"
  /\ retrieved[m] = <<<<>>, <<>>, <<>>>>

\* C16: when the three namespaces return no hit the context is the three
\* empty results joined, the prompt is built from it and the text of the
\* message, the model is called once, and its text is what is sent next
C16_EmptyContextStillAsked ==
  /\ [](\A m \in Units :
         /\ NoHits(m) =>
              /\ system_prompt[m] =
                   [query |-> text[m], contents |-> << <<"\n">>, <<"\n">> >>, built |-> TRUE]
              /\ generations[m] = <<>>
              /\ sent[m] = <<>>
         /\ (SearchesReturned(m) /\ pc[m] # "generate") => Len(generations[m]) = 1)
  /\ [][\A m \in Units :
          (NoHits(m) /\ pc'[m] # pc[m]) =>
             /\ Len(generations'[m]) = 1
             /\ generations'[m][1].ok =>
                  (pc'[m] = "respond" /\ response_text'[m] = generations'[m][1].text)
             /\ ~generations'[m][1].ok => pc'[m] = "apology"]_vars
  /\ [][\A m \in Units :
          (pc[m] = "respond" /\ pc'[m] # pc[m]) => sent'[m] = <<generations[m][1].text>>]_vars

C16_Witness ==
  \E m \in Units :
    /\ NoHits(m)
    /\ Len(system_prompt[m].contents) = 2
    /\ Blocks(system_prompt[m].contents) = <<>>

\* C18: a search is issued only by a unit that is in the loop of
\* process_query and holds the event loop, after every earlier search of the
\* message has returned, for the namespace that follows them in the order
\* key_words, general_text, tables; a failed search ends the loop
C18_SequentialSearches ==
  /\ [][\A m \in Units :
          searches'[m] # searches[m] =>
             /\ pc[m] = "search" /\ loop = m
             /\ Len(searches'[m]) = Len(searches[m]) + 1
             /\ \A i \in 1..Len(searches[m]) :
                  searches[m][i].ok /\ searches'[m][i] = searches[m][i]
             /\ Last(searches'[m]).call.namespace =
                  <<"key_words", "general_text", "tables">>[Len(searches[m]) + 1]
             /\ ~Last(searches'[m]).ok => pc'[m] = "apology"]_vars
  /\ [](\A m \in Units : SearchFailed(m) => pc[m] \in {"apology", "exit", "done"})

C18_Witness ==
  \E m \in Units, n \in Units :
    /\ Terminated(m) /\ Len(searches[m]) = 2 /\ SearchFailed(m)
    /\ searches[m][1].call.namespace = "key_words"
    /\ searches[m][2].call.namespace = "general_text"
    /\ pc[n] = "search" /\ Len(searches[n]) = 2

\* C19: the typing action of a message is on while its unit is inside a
\* search, the generation call or the sending of its answer or apology, and
\* it is never on for a message whose text begins with /
C19_IndicatorWhileProcessing ==
  \A m \in Units :
    /\ pc[m] \in {"search", "generate", "respond", "apology"} => action[m]
    /\ (pc[m] # "idle" /\ StartsWith(text[m], SLASH)) => ~action[m]
    /\ action[m] => IsQuery(m)

C19_Witness ==
  \E m \in Units, n \in Units :
    /\ pc[m] = "apology" /\ action[m]
    /\ text[n] = <<"/", "s", "t", "a", "r", "t">> /\ Terminated(n)
    /\ sent[n] = <<welcome_message>> /\ ~action[n]

====
